---- MODULE Spec2Model ----
(***************************************************************************)
(* REST server (src/server.py) and its client (src/client.py).             *)
(*                                                                         *)
(* Three specifications share the variables:                               *)
(*   Spec         the server as it runs: socketserver builds one           *)
(*                HTTPRequestHandler per connection, the handler serves    *)
(*                one request (protocol_version is HTTP/1.0), and          *)
(*                HTTPRequestHandler.__init__ builds a new Database;        *)
(*   SpecHandler  the do_* methods and the Database methods they call,     *)
(*                applied one after the other to one Database instance;    *)
(*   SpecClient   SecureHTTPClient: a typed method call, or a call of      *)
(*                _request_with_retry, against an arbitrary transport.     *)
(***************************************************************************)
EXTENDS Integers, Sequences, FiniteSets, TLC

VARIABLES
    pc,        \* "idle" between requests, "sent" when a request has been served
    db,        \* self.db of the handler that served the latest request
    db0,       \* the same Database as that handler found it, before the request
    now,       \* time.time()
    req,       \* the latest request: method, raw path segments, raw body
    resp,      \* the responses that handler sent, in order
    userLog,   \* history: the data of every 201 answer to POST /users, in order
    postLog,   \* history: the data of every 201 answer to POST /posts, in order
    created,   \* history: id -> user as answered 201, until a PUT or DELETE names the id
    lastGet,   \* history: when a GET was sent once more, its path and its first responses
    verify_ssl,  \* HTTPClient.verify_ssl
    cert_file,   \* HTTPClient.cert_file
    verify,      \* HTTPClient.session.verify
    max_retries, \* SecureHTTPClient.max_retries
    cpc,       \* client: "idle", "loop" (inside _request_with_retry), "returned", "raised"
    entry,     \* the client method the caller invoked
    attempt,   \* the loop variable of _request_with_retry
    sleeps,    \* history: calls of time.sleep(retry_delay) in this invocation
    outcomes,  \* history: what _request returned, per exchange of this invocation
    endpoint,  \* history: the server of the latest exchange
    lastTr,    \* history: what the transport did in the latest exchange
    retried,   \* history: the latest outcome made the loop sleep and continue
    ret        \* the value returned to the caller

clVars == <<verify_ssl, cert_file, verify, max_retries, cpc, entry, attempt, sleeps,
           outcomes, endpoint, lastTr, retried, ret>>

srvVars == <<pc, db, db0, now, req, resp, userLog, postLog, created, lastGet>>

----------------------------------------------------------------------------
(* Bounds of the model *)

MaxId   == 2     \* ids a single Database hands out
MaxLog  == 2     \* successful creates recorded per entity type
MaxTime == 1     \* clock readings
MaxRetries == 3  \* largest max_retries a client is built with

----------------------------------------------------------------------------
(* JSON / Python values, tagged with their type *)

Null   == <<"null">>
I(n)   == <<"int", n>>
S(s)   == <<"str", s>>
Obj(f) == <<"obj", f>>
Arr(a) == <<"arr", a>>
B(b)   == <<"bool", b>>

NoBody    == <<"nobody">>      \* Content-Length absent or 0
BadLength == <<"badlength">>   \* a Content-Length header that is no integer
Malformed == <<"malformed">>   \* bytes json.loads rejects

\* not v
Falsy(v) == v \in {Null, I(0), S(""), Obj(<<>>), Arr(<<>>), B(FALSE)}

\* the integer a hashable value compares and hashes equal to, where it has one:
\* bool is a subclass of int, True == 1 and False == 0
IsNum(v) == v[1] \in {"int", "bool"}
Num(v) == IF v[1] = "bool" THEN (IF v[2] THEN 1 ELSE 0) ELSE v[2]

\* a == b
Eq(a, b) == IF IsNum(a) /\ IsNum(b) THEN Num(a) = Num(b) ELSE a = b

\* dict.get(key): None when the key is absent
Get(f, k) == IF k \in DOMAIN f THEN f[k] ELSE Null

Put(f, k, v) == [x \in DOMAIN f \cup {k} |-> IF x = k THEN v ELSE f[x]]
Del(f, k)    == [x \in DOMAIN f \ {k} |-> f[x]]

\* dict.update(other) for a dict argument
Merge(f, g) == [x \in DOMAIN f \cup DOMAIN g |-> IF x \in DOMAIN g THEN g[x] ELSE f[x]]

RECURSIVE SetToSeq(_)
\* list(d.values()) of a dict whose keys were inserted in increasing order
SetToSeq(s) ==
    IF s = {} THEN <<>>
    ELSE LET m == CHOOSE x \in s : \A y \in s : x <= y
         IN <<m>> \o SetToSeq(s \ {m})

\* list(d.values()): the entities in key order, each a JSON object
Values(f) == LET ks == SetToSeq(DOMAIN f) IN [i \in 1..Len(ks) |-> Obj(f[ks[i]])]

RECURSIVE Filter(_, _)
\* [post for post in posts if post['author_id'] == a]
Filter(seq, a) ==
    IF seq = <<>> THEN <<>>
    ELSE (IF Eq(Head(seq)[2]["author_id"], a) THEN <<Head(seq)>> ELSE <<>>)
         \o Filter(Tail(seq), a)

----------------------------------------------------------------------------
(* class Database *)

Database ==
    [users |-> <<>>, posts |-> <<>>, next_user_id |-> 1, next_post_id |-> 1]

create_user(d, name, email, age, t) ==
    LET user_id == d.next_user_id
        user == [id |-> I(user_id), name |-> name, email |-> email,
                 age |-> age, created_at |-> I(t)]
    IN [db  |-> [d EXCEPT !.users = Put(@, user_id, user),
                          !.next_user_id = @ + 1],
        ret |-> Obj(user)]

get_user(d, user_id) ==
    IF user_id \in DOMAIN d.users THEN Obj(d.users[user_id]) ELSE Null

get_all_users(d) == Values(d.users)

\* dict.update(arg) for an argument decoded from JSON: the dict after the call
\* and the exception it raised ("" for none).  A list is consumed element by
\* element, so the pairs before a bad element are already stored when it raises.
\* Elements fed by this model: two-element lists (a pair), lists of another
\* length, strings of a length other than 2, numbers and null.
RECURSIVE update_seq(_, _, _)
update_seq(rec, items, i) ==
    IF i > Len(items) THEN [rec |-> rec, exc |-> "", msg |-> ""]
    ELSE LET e == items[i] IN
         IF e[1] = "arr" /\ Len(e[2]) = 2
         THEN IF e[2][1][1] \in {"arr", "obj"}
              THEN [rec |-> rec, exc |-> "TypeError", msg |-> "unhashable type"]
              ELSE update_seq(Put(rec, e[2][1][2], e[2][2]), items, i + 1)
         ELSE IF e[1] \in {"arr", "str", "obj"}
         THEN [rec |-> rec, exc |-> "ValueError",
               msg |-> "dictionary update sequence element has wrong length; 2 is required"]
         ELSE [rec |-> rec, exc |-> "TypeError",
               msg |-> "cannot convert dictionary update sequence element to a sequence"]

dict_update(rec, arg) ==
    CASE arg[1] = "obj" -> [rec |-> Merge(rec, arg[2]), exc |-> "", msg |-> ""]
      [] arg[1] = "arr" -> update_seq(rec, arg[2], 1)
      [] arg[1] = "str" ->
            IF arg[2] = "" THEN [rec |-> rec, exc |-> "", msg |-> ""]
            ELSE [rec |-> rec, exc |-> "ValueError",
                  msg |-> "dictionary update sequence element has wrong length; 2 is required"]
      [] OTHER -> [rec |-> rec, exc |-> "TypeError", msg |-> "object is not iterable"]

update_user(d, user_id, updates) ==
    IF user_id \notin DOMAIN d.users
    THEN [db |-> d, ret |-> Null, exc |-> "", msg |-> ""]
    ELSE LET u == dict_update(d.users[user_id], updates)
             d2 == [d EXCEPT !.users[user_id] = u.rec]
         IN [db |-> d2, ret |-> Obj(u.rec), exc |-> u.exc, msg |-> u.msg]

\* a delete that takes the user's posts along
delete_user_cascade(d, user_id) ==
    IF user_id \in DOMAIN d.users
    THEN [db |-> [d EXCEPT !.users = Del(@, user_id),
                          !.posts = [k \in {x \in DOMAIN @ : ~Eq(@[x]["author_id"], I(user_id))}
                                       |-> @[k]]],
          ret |-> TRUE]
    ELSE [db |-> d, ret |-> FALSE]

\* a delete that does not look whether the id is there
delete_user_unchecked(d, user_id) ==
    [db |-> [d EXCEPT !.users = Del(@, user_id)], ret |-> TRUE]

delete_user(d, user_id) ==
    IF user_id \in DOMAIN d.users
    THEN [db |-> [d EXCEPT !.users = Del(@, user_id)], ret |-> TRUE]
    ELSE [db |-> d, ret |-> FALSE]

\* a create_post that takes the next id before it looks for the author
create_post_counts_first(d, title, content, author_id, t) ==
    IF author_id[1] \in {"arr", "obj"}
    THEN [db |-> d, ret |-> Null, exc |-> "TypeError", msg |-> "unhashable type"]
    ELSE IF ~(IsNum(author_id) /\ Num(author_id) \in DOMAIN d.users)
    THEN [db |-> [d EXCEPT !.next_post_id = @ + 1], ret |-> Null, exc |-> "", msg |-> ""]
    ELSE LET post_id == d.next_post_id
             post == [id |-> I(post_id), title |-> title, content |-> content,
                      author_id |-> author_id, created_at |-> I(t)]
         IN [db  |-> [d EXCEPT !.posts = Put(@, post_id, post),
                               !.next_post_id = @ + 1],
             ret |-> Obj(post), exc |-> "", msg |-> ""]

\* author_id arrives as decoded JSON: an integer, or a boolean equal to one, can
\* be a key of users; a list or an object is unhashable
create_post(d, title, content, author_id, t) ==
    IF author_id[1] \in {"arr", "obj"}
    THEN [db |-> d, ret |-> Null, exc |-> "TypeError", msg |-> "unhashable type"]
    ELSE IF ~(IsNum(author_id) /\ Num(author_id) \in DOMAIN d.users)
    THEN [db |-> d, ret |-> Null, exc |-> "", msg |-> ""]
    ELSE LET post_id == d.next_post_id
             post == [id |-> I(post_id), title |-> title, content |-> content,
                      author_id |-> author_id, created_at |-> I(t)]
         IN [db  |-> [d EXCEPT !.posts = Put(@, post_id, post),
                               !.next_post_id = @ + 1],
             ret |-> Obj(post), exc |-> "", msg |-> ""]

get_post(d, post_id) ==
    IF post_id \in DOMAIN d.posts THEN Obj(d.posts[post_id]) ELSE Null

get_all_posts(d) == Values(d.posts)

get_user_posts(d, user_id) == Filter(Values(d.posts), I(user_id))

----------------------------------------------------------------------------
(* class HTTPRequestHandler *)

RECURSIVE NonEmpty(_)
\* [p for p in parsed.path.split('/') if p]
NonEmpty(segs) ==
    IF segs = <<>> THEN <<>>
    ELSE (IF Head(segs) = "" THEN <<>> ELSE <<Head(segs)>>) \o NonEmpty(Tail(segs))

\* the request target http://[ : urlparse raises ValueError("Invalid IPv6 URL")
InvalidIPv6 == <<"http:", "", "[">>
urlparse_raises(path) == path = InvalidIPv6

_parse_path(path) == NonEmpty(path)

\* int(segment): the decimal literals among the segments the model sends
IntLiterals == {"0", "1", "2", "3"}
IsInt(seg) == seg \in IntLiterals
int(seg) == CASE seg = "0" -> 0 [] seg = "1" -> 1 [] seg = "2" -> 2 [] seg = "3" -> 3

\* a reader that hands out None for every decoded value that is falsy
_read_json_body_falsy(raw) ==
    IF raw \in {NoBody, Malformed} \/ Falsy(raw) THEN Null ELSE raw

\* None for Content-Length 0, for bytes json.loads rejects, and for the JSON
\* literal null; the decoded value otherwise
_read_json_body(raw) == IF raw \in {NoBody, Malformed, Null} THEN Null ELSE raw

\* int(self.headers.get('Content-Length', 0)) raises ValueError, before the try
_read_json_body_raises(raw) == raw = BadLength

\* an exception leaves the do_* method: nothing is sent, the Store is untouched
Unanswered(d) == [db |-> d, out |-> <<>>]

_send_json_response(data, status_code) == [status |-> status_code, body |-> data]

_send_error(message, status_code, t) ==
    _send_json_response([success |-> FALSE, error |-> message, timestamp |-> t],
                        status_code)

\* type(x).__name__ of a decoded JSON value
TypeName(v) ==
    CASE v[1] = "arr" -> "list" [] v[1] = "str" -> "str" [] v[1] = "int" -> "int"
      [] v[1] = "obj" -> "dict" [] v[1] = "bool" -> "bool" [] OTHER -> "NoneType"

ServerInfo ==
    [success |-> TRUE, message |-> "HTTP Server is running!", version |-> "1.0.0",
     endpoints |-> ("GET /" :> "Server info") @@ ("GET /users" :> "Get all users")
                @@ ("GET /users/{id}" :> "Get user by ID") @@ ("POST /users" :> "Create user")
                @@ ("PUT /users/{id}" :> "Update user") @@ ("DELETE /users/{id}" :> "Delete user")
                @@ ("GET /posts" :> "Get all posts") @@ ("GET /posts/{id}" :> "Get post by ID")
                @@ ("POST /posts" :> "Create post") @@ ("GET /users/{id}/posts" :> "Get user posts")]

do_GET(d, path, t) ==
    IF urlparse_raises(path) THEN Unanswered(d) ELSE
    LET path_parts == _parse_path(path) IN
    IF path_parts = <<>>
    THEN [db |-> d, out |-> <<_send_json_response(ServerInfo, 200)>>]
    ELSE IF path_parts[1] = "users"
    THEN IF Len(path_parts) = 1
         THEN LET users == get_all_users(d) IN
              [db |-> d, out |-> <<_send_json_response(
                  [success |-> TRUE, data |-> Arr(users), count |-> Len(users)], 200)>>]
         ELSE IF Len(path_parts) = 2
         THEN IF ~IsInt(path_parts[2])
              THEN [db |-> d, out |-> <<_send_error("Invalid user ID", 400, t)>>]
              ELSE LET user == get_user(d, int(path_parts[2])) IN
                   IF ~Falsy(user)
                   THEN [db |-> d, out |-> <<_send_json_response(
                            [success |-> TRUE, data |-> user], 200)>>]
                   ELSE [db |-> d, out |-> <<_send_error("User not found", 404, t)>>]
         ELSE IF Len(path_parts) = 3 /\ path_parts[3] = "posts"
         THEN IF ~IsInt(path_parts[2])
              THEN [db |-> d, out |-> <<_send_error("Invalid user ID", 400, t)>>]
              ELSE LET posts == get_user_posts(d, int(path_parts[2])) IN
                   [db |-> d, out |-> <<_send_json_response(
                       [success |-> TRUE, data |-> Arr(posts), count |-> Len(posts)], 200)>>]
         ELSE [db |-> d, out |-> <<>>]      \* no branch of the if/elif chain matches
    ELSE IF path_parts[1] = "posts"
    THEN IF Len(path_parts) = 1
         THEN LET posts == get_all_posts(d) IN
              [db |-> d, out |-> <<_send_json_response(
                  [success |-> TRUE, data |-> Arr(posts), count |-> Len(posts)], 200)>>]
         ELSE IF Len(path_parts) = 2
         THEN IF ~IsInt(path_parts[2])
              THEN [db |-> d, out |-> <<_send_error("Invalid post ID", 400, t)>>]
              ELSE LET post == get_post(d, int(path_parts[2])) IN
                   IF ~Falsy(post)
                   THEN [db |-> d, out |-> <<_send_json_response(
                            [success |-> TRUE, data |-> post], 200)>>]
                   ELSE [db |-> d, out |-> <<_send_error("Post not found", 404, t)>>]
         ELSE [db |-> d, out |-> <<>>]      \* no branch of the if/elif chain matches
    ELSE [db |-> d, out |-> <<_send_error("Endpoint not found", 404, t)>>]

do_POST(d, path, raw, t) ==
    IF urlparse_raises(path) \/ _read_json_body_raises(raw) THEN Unanswered(d) ELSE
    LET path_parts == _parse_path(path)
        data == _read_json_body(raw)
    IN
    IF data = Null
    THEN [db |-> d, out |-> <<_send_error("Invalid JSON data", 400, t)>>]
    ELSE IF path_parts = <<"users">>
    THEN IF data[1] # "obj"
         THEN [db |-> d, out |-> <<_send_error(
                  "Server error: '" \o TypeName(data) \o "' object has no attribute 'get'",
                  500, t)>>]
         ELSE LET name  == Get(data[2], "name")
                  email == Get(data[2], "email")
                  age   == Get(data[2], "age")
              IN IF Falsy(name) \/ Falsy(email)
                 THEN [db |-> d, out |-> <<_send_error("Name and email are required", 400, t)>>]
                 ELSE LET r == create_user(d, name, email, age, t) IN
                      [db |-> r.db, out |-> <<_send_json_response(
                          [success |-> TRUE, message |-> "User created successfully",
                           data |-> r.ret], 201)>>]
    ELSE IF path_parts = <<"posts">>
    THEN IF data[1] # "obj"
         THEN [db |-> d, out |-> <<_send_error(
                  "Server error: '" \o TypeName(data) \o "' object has no attribute 'get'",
                  500, t)>>]
         ELSE LET title     == Get(data[2], "title")
                  content   == Get(data[2], "content")
                  author_id == Get(data[2], "author_id")
              IN IF Falsy(title) \/ Falsy(content) \/ Falsy(author_id)
                 THEN [db |-> d, out |-> <<_send_error(
                          "Title, content, and author_id are required", 400, t)>>]
                 ELSE LET r == create_post(d, title, content, author_id, t) IN
                      IF r.exc # ""
                      THEN [db |-> r.db, out |-> <<_send_error(
                               "Server error: " \o r.msg, 500, t)>>]
                      ELSE IF ~Falsy(r.ret)
                      THEN [db |-> r.db, out |-> <<_send_json_response(
                               [success |-> TRUE, message |-> "Post created successfully",
                                data |-> r.ret], 201)>>]
                      ELSE [db |-> r.db, out |-> <<_send_error("Author not found", 404, t)>>]
    ELSE [db |-> d, out |-> <<_send_error("Endpoint not found", 404, t)>>]

do_PUT(d, path, raw, t) ==
    IF urlparse_raises(path) \/ _read_json_body_raises(raw) THEN Unanswered(d) ELSE
    LET path_parts == _parse_path(path)
        data == _read_json_body(raw)
    IN
    IF data = Null
    THEN [db |-> d, out |-> <<_send_error("Invalid JSON data", 400, t)>>]
    ELSE IF path_parts # <<>> /\ path_parts[1] = "users" /\ Len(path_parts) = 2
    THEN IF ~IsInt(path_parts[2])
         THEN [db |-> d, out |-> <<_send_error("Invalid user ID", 400, t)>>]
         ELSE LET r == update_user(d, int(path_parts[2]), data) IN
              IF r.exc = "ValueError"       \* the inner except ValueError
              THEN [db |-> r.db, out |-> <<_send_error("Invalid user ID", 400, t)>>]
              ELSE IF r.exc # ""            \* the outer except Exception
              THEN [db |-> r.db, out |-> <<_send_error("Server error: " \o r.msg, 500, t)>>]
              ELSE IF ~Falsy(r.ret)
              THEN [db |-> r.db, out |-> <<_send_json_response(
                       [success |-> TRUE, message |-> "User updated successfully",
                        data |-> r.ret], 200)>>]
              ELSE [db |-> r.db, out |-> <<_send_error("User not found", 404, t)>>]
    ELSE [db |-> d, out |-> <<_send_error("Endpoint not found", 404, t)>>]

do_DELETE(d, path, t) ==
    IF urlparse_raises(path) THEN Unanswered(d) ELSE
    LET path_parts == _parse_path(path) IN
    IF path_parts # <<>> /\ path_parts[1] = "users" /\ Len(path_parts) = 2
    THEN IF ~IsInt(path_parts[2])
         THEN [db |-> d, out |-> <<_send_error("Invalid user ID", 400, t)>>]
         ELSE LET r == delete_user(d, int(path_parts[2])) IN
              IF r.ret
              THEN [db |-> r.db, out |-> <<_send_json_response(
                       [success |-> TRUE, message |-> "User deleted successfully"], 200)>>]
              ELSE [db |-> r.db, out |-> <<_send_error("User not found", 404, t)>>]
    ELSE [db |-> d, out |-> <<_send_error("Endpoint not found", 404, t)>>]

----------------------------------------------------------------------------
(* Requests the model sends *)

\* raw paths, as the segments between the slashes (empty ones included)
Paths ==
    { <<>>, <<"users">>, <<"users", "1">>, <<"users", "2">>, <<"users", "abc">>,
      <<"users", "1", "posts">>, <<"users", "2", "posts">>,
      <<"users", "abc", "posts">>, <<"users", "1", "x">>,
      <<"users", "1", "posts", "x">>, <<"posts">>, <<"posts", "1">>, <<"posts", "abc">>,
      <<"posts", "1", "x">>, <<"unknown">>, <<"", "users", "">>, InvalidIPv6 }

Absent == <<"absent">>     \* marks a key left out of an object

\* the object with the given keys, the Absent ones left out
MkObj(f) == Obj([k \in {x \in DOMAIN f : f[x] # Absent} |-> f[k]])

Pair(k, v) == Arr(<<S(k), v>>)

UserObjects ==
    { MkObj([name |-> n, email |-> e, age |-> a]) :
        n \in {Absent, S(""), S("Alice")}, e \in {Absent, S(""), S("a@x.com")},
        a \in {Absent, I(28)} }

PostObjects ==
    { MkObj([title |-> ti, content |-> c, author_id |-> a]) :
        ti \in {Absent, S("T")}, c \in {Absent, S("C")},
        a \in {Absent, I(0), I(1), B(TRUE)} }

UpdateObjects ==
    { MkObj([name |-> n, id |-> i, created_at |-> c]) :
        n \in {Absent, S(""), S("Bob")}, i \in {Absent, I(2)}, c \in {Absent, I(9)} }

NonObjects ==
    { NoBody, Malformed, Null, I(5), S(""), S("abc"), Arr(<<>>),
      Arr(<<Pair("name", S("Bob"))>>),
      Arr(<<Pair("name", S("Bob")), I(5)>>),
      Arr(<<Pair("name", S("Bob")), Arr(<<I(1), I(2), I(3)>>)>>) }

ValidUser == MkObj([name |-> S("Alice"), email |-> S("a@x.com")])

\* the bodies sent with a POST or a PUT to a path
PostBodies(path) ==
    IF path = <<"users">>
    THEN UserObjects \cup {NoBody, BadLength, Malformed, Null, I(5), Arr(<<>>)}
    ELSE IF path = <<"posts">> THEN PostObjects \cup {NoBody, I(5)}
    ELSE {NoBody, ValidUser}

PutBodies(path) ==
    IF path = <<"users", "1">> THEN UpdateObjects \cup NonObjects \cup {BadLength}
    ELSE {NoBody, Obj(<<>>), S("abc")}

----------------------------------------------------------------------------
(* The server as a state machine *)

\* HTTPRequestHandler.__init__: self.db = Database(), then the request is served
HTTPRequestHandler_init == Database

Status(out) == IF out = <<>> THEN 0 ELSE out[1].status

NoRequest == [method |-> "", path |-> <<>>, body |-> NoBody]

\* the request is not a GET sent for the second time
NoGet == [seen |-> FALSE, path |-> <<>>, out |-> <<>>]

\* the do_* method the request's command selects
Dispatch(d, method, path, raw) ==
    CASE method = "GET"    -> do_GET(d, path, now)
      [] method = "POST"   -> do_POST(d, path, raw, now)
      [] method = "PUT"    -> do_PUT(d, path, raw, now)
      [] method = "DELETE" -> do_DELETE(d, path, now)

\* the histories extended by what the handler answered (r) to a request
Recorded(method, parts, r) ==
    LET newUser == method = "POST" /\ parts = <<"users">> /\ Status(r.out) = 201
        newPost == method = "POST" /\ parts = <<"posts">> /\ Status(r.out) = 201
        names == /\ method \in {"PUT", "DELETE"}
                 /\ Len(parts) = 2 /\ parts[1] = "users" /\ IsInt(parts[2])
    IN [inBounds |-> /\ r.db.next_user_id <= MaxId + 1
                     /\ r.db.next_post_id <= MaxId + 1
                     /\ newUser => Len(userLog) < MaxLog
                     /\ newPost => Len(postLog) < MaxLog,
        db       |-> r.db,
        out      |-> r.out,
        userLog  |-> IF newUser THEN Append(userLog, r.out[1].body.data) ELSE userLog,
        postLog  |-> IF newPost THEN Append(postLog, r.out[1].body.data) ELSE postLog,
        created  |-> IF newUser
                     THEN Put(created, r.out[1].body.data[2]["id"][2], r.out[1].body.data)
                     ELSE IF names THEN Del(created, int(parts[2]))
                     ELSE created]

\* One request served by a handler whose Database is d
Served(d, method, path, raw) ==
    Recorded(method, _parse_path(path), Dispatch(d, method, path, raw))

\* a GET is the next request, or it is the GET just answered, sent once more
GET(d0) ==
    /\ \E path \in Paths :
         /\ \/ pc = "idle"
            \/ pc = "sent" /\ req.method = "GET" /\ path = req.path
         /\ \E o \in {Served(d0, "GET", path, NoBody)} :
              /\ o.inBounds
              /\ req' = [method |-> "GET", path |-> path, body |-> NoBody]
              /\ db0' = d0 /\ db' = o.db /\ resp' = o.out
              /\ userLog' = o.userLog /\ postLog' = o.postLog /\ created' = o.created
    /\ lastGet' = IF pc = "sent"
                  THEN [seen |-> TRUE, path |-> req.path, out |-> resp]
                  ELSE NoGet
    /\ pc' = "sent"
    /\ UNCHANGED <<now, clVars>>

POST(d0) ==
    /\ pc = "idle"
    /\ \E path \in Paths : \E raw \in PostBodies(path) :
         \E o \in {Served(d0, "POST", path, raw)} :
         /\ o.inBounds
         /\ req' = [method |-> "POST", path |-> path, body |-> raw]
         /\ db0' = d0 /\ db' = o.db /\ resp' = o.out
         /\ userLog' = o.userLog /\ postLog' = o.postLog /\ created' = o.created
    /\ pc' = "sent"
    /\ UNCHANGED <<now, lastGet, clVars>>

PUT(d0) ==
    /\ pc = "idle"
    /\ \E path \in Paths : \E raw \in PutBodies(path) :
         \E o \in {Served(d0, "PUT", path, raw)} :
         /\ o.inBounds
         /\ req' = [method |-> "PUT", path |-> path, body |-> raw]
         /\ db0' = d0 /\ db' = o.db /\ resp' = o.out
         /\ userLog' = o.userLog /\ postLog' = o.postLog /\ created' = o.created
    /\ pc' = "sent"
    /\ UNCHANGED <<now, lastGet, clVars>>

DELETE(d0) ==
    /\ pc = "idle"
    /\ \E path \in Paths :
         \E o \in {Served(d0, "DELETE", path, NoBody)} :
         /\ o.inBounds
         /\ req' = [method |-> "DELETE", path |-> path, body |-> NoBody]
         /\ db0' = d0 /\ db' = o.db /\ resp' = o.out
         /\ userLog' = o.userLog /\ postLog' = o.postLog /\ created' = o.created
    /\ pc' = "sent"
    /\ UNCHANGED <<now, lastGet, clVars>>

\* the exchange is over: the response is with the client, the next request can come
finish ==
    /\ pc = "sent"
    /\ pc' = "idle"
    /\ req' = NoRequest
    /\ resp' = <<>>
    /\ db0' = db
    /\ lastGet' = NoGet
    /\ UNCHANGED <<db, now, userLog, postLog, created, clVars>>

\* time passes
Tick ==
    /\ now < MaxTime
    /\ now' = now + 1
    /\ UNCHANGED <<pc, db, db0, req, resp, userLog, postLog, created, lastGet, clVars>>

----------------------------------------------------------------------------
(* class HTTPClient, class SecureHTTPClient *)

\* A text is the sequence of its fragments; a searched needle is one fragment,
\* so "needle in text" is membership among the fragments.
Contains(text, needle) == \E i \in 1..Len(text) : text[i] = needle

\* What session.request does: it raises (the exception's classes among
\* SSLError, ConnectionError, Timeout, and its str()), or it returns a response
\* (status code; a body that is JSON, decoded in value, or is not).
Raises(ssl, conn, timeout, text) ==
    [kind |-> "exc", ssl |-> ssl, conn |-> conn, timeout |-> timeout, text |-> text,
     status |-> 0, json |-> FALSE, value |-> Null]
Responds(status, json, value) ==
    [kind |-> "resp", ssl |-> FALSE, conn |-> FALSE, timeout |-> FALSE, text |-> <<>>,
     status |-> status, json |-> json, value |-> value]

Transports ==
    { Raises(TRUE, TRUE, FALSE, <<"certificate verify failed">>),     \* SSLError
      Raises(TRUE, TRUE, FALSE, <<"handshake: ", "Timeout">>),        \* SSLError
      Raises(FALSE, TRUE, FALSE, <<"connection refused">>),           \* ConnectionError
      Raises(FALSE, TRUE, TRUE, <<"connect timed out">>),             \* ConnectTimeout
      Raises(FALSE, FALSE, TRUE, <<"read timed out">>),               \* ReadTimeout
      Raises(FALSE, FALSE, FALSE, <<"invalid URL">>),                 \* another exception
      Responds(200, TRUE, Obj([success |-> TRUE])),
      Responds(404, TRUE, Obj([success |-> FALSE, error |-> <<"User not found">>])),
      Responds(404, TRUE, Obj([success |-> FALSE, error |-> <<"Gateway ", "Timeout">>])),
      Responds(503, TRUE, Obj([success |-> FALSE, error |-> <<"Server error: ", "busy">>])),
      Responds(200, TRUE, Arr(<<>>)),
      Responds(500, TRUE, Null),
      Responds(503, FALSE, Null) }

\* the cert_file arguments a client is built with: None, "", the certificate of
\* the self-signed server, another certificate, and a path that does not exist
CertFiles == {Null, S(""), S("server.crt"), S("other.crt"), S("missing.crt")}

\* os.path.exists(cert_file)
Exists(path) == path \in {S("server.crt"), S("other.crt")}

\* HTTPClient.__init__ with cert_file tested before verify_ssl
HTTPClient_init_cert_first(vs, cf) ==
    IF ~Falsy(cf) /\ Exists(cf) THEN cf
    ELSE IF ~vs THEN B(FALSE)
    ELSE B(TRUE)

\* HTTPClient.__init__: session.verify after the constructor; a new
\* requests.Session has verify = True
HTTPClient_init(vs, cf) ==
    IF ~vs THEN B(FALSE)
    ELSE IF ~Falsy(cf) /\ Exists(cf) THEN cf
    ELSE B(TRUE)

\* the servers a request goes to: one about which nothing is known, and one
\* that presents the self-signed certificate server.crt and answers 200
Endpoints == {"any", "self_signed"}

\* session.request(..., verify=v): certificate validation is skipped for
\* False, uses the given file as the trust anchor for a path, and uses the
\* system's trust store, which has no self-signed certificate, for True
session_request(e, v) ==
    IF e = "any" THEN Transports
    ELSE IF v = B(FALSE) \/ v = S("server.crt")
    THEN {Responds(200, TRUE, Obj([success |-> TRUE]))}
    ELSE {Raises(TRUE, TRUE, FALSE, <<"certificate verify failed">>)}

\* _request with the except clauses in another order: ConnectionError, Timeout,
\* SSLError, Exception
_request_conn_first(tr) ==
    IF tr.kind = "resp"
    THEN LET response_data == IF tr.json THEN tr.value
                              ELSE Obj([raw_response |-> <<"<html>">>])
         IN IF response_data[1] = "obj"
            THEN Merge(response_data[2],
                       [_status_code |-> tr.status, _success |-> tr.status < 400])
            ELSE [success |-> FALSE,
                  error |-> <<"Request Error: ", "object has no attribute 'update'">>]
    ELSE IF tr.conn
    THEN [success |-> FALSE, error |-> <<"Connection Error", ": ">> \o tr.text,
          suggestion |-> "Check if server is running and URL is correct"]
    ELSE IF tr.timeout
    THEN [success |-> FALSE, error |-> <<"Timeout", " Error: ">> \o tr.text,
          suggestion |-> "Increase timeout or check network connection"]
    ELSE IF tr.ssl
    THEN [success |-> FALSE, error |-> <<"SSL Error: ">> \o tr.text,
          suggestion |-> "Try using --no-verify-ssl or provide correct certificate"]
    ELSE [success |-> FALSE, error |-> <<"Request Error: ">> \o tr.text]

\* HTTPClient._request: the dict it returns for what the transport did
_request(tr) ==
    IF tr.kind = "resp"
    THEN LET response_data == IF tr.json THEN tr.value
                              ELSE Obj([raw_response |-> <<"<html>">>])
         IN IF response_data[1] = "obj"
            THEN Merge(response_data[2],
                       [_status_code |-> tr.status, _success |-> tr.status < 400])
            ELSE \* .update of a non-dict: AttributeError, caught by except Exception
                 [success |-> FALSE,
                  error |-> <<"Request Error: ", "object has no attribute 'update'">>]
    ELSE IF tr.ssl
    THEN [success |-> FALSE, error |-> <<"SSL Error: ">> \o tr.text,
          suggestion |-> "Try using --no-verify-ssl or provide correct certificate"]
    ELSE IF tr.conn
    THEN [success |-> FALSE, error |-> <<"Connection Error", ": ">> \o tr.text,
          suggestion |-> "Check if server is running and URL is correct"]
    ELSE IF tr.timeout
    THEN [success |-> FALSE, error |-> <<"Timeout", " Error: ">> \o tr.text,
          suggestion |-> "Increase timeout or check network connection"]
    ELSE [success |-> FALSE, error |-> <<"Request Error: ">> \o tr.text]

\* the except clause of _request that handles the transport's result
Kind(tr) ==
    IF tr.kind = "resp" THEN "response"
    ELSE IF tr.ssl THEN "tls_error"
    ELSE IF tr.conn THEN "connection_error"
    ELSE IF tr.timeout THEN "timeout_error"
    ELSE "generic_error"

\* result.get('_status_code', 0) and str(result.get('error', ''))
StatusOf(result) == IF "_status_code" \in DOMAIN result THEN result["_status_code"] ELSE 0
ErrorOf(result)  == IF "error" \in DOMAIN result THEN result["error"] ELSE <<>>

\* the retry condition of _request_with_retry
ShouldRetry(result) ==
    \/ StatusOf(result) >= 500
    \/ Contains(ErrorOf(result), "Connection Error")
    \/ Contains(ErrorOf(result), "Timeout")

\* a retry condition that also holds in the last iteration
SleepsAfterLastAttempt(result, att, n) == ShouldRetry(result) /\ att < n

\* the body of the for loop: sleep and continue, or return
SleepsAndContinues(result, att, n) == ShouldRetry(result) /\ att < n - 1

TypedMethods ==
    { "get_server_info", "create_user", "get_all_users", "get_user", "update_user",
      "delete_user", "create_post", "get_all_posts", "get_post", "get_user_posts" }

NoTransport == Responds(0, FALSE, Null)

\* SecureHTTPClient(base_url, verify_ssl=vs, cert_file=cf, max_retries=n)
SecureHTTPClient_init ==
    /\ cpc = "idle"
    /\ \E vs \in BOOLEAN : \E cf \in CertFiles :
         /\ verify_ssl' = vs
         /\ cert_file' = cf
         /\ verify' = HTTPClient_init(vs, cf)
    /\ \E n \in 0..MaxRetries : max_retries' = n
    /\ UNCHANGED <<cpc, entry, attempt, sleeps, outcomes, endpoint, lastTr, retried, ret,
                   srvVars>>

\* a typed method: return self._request(...)
typed_method ==
    /\ cpc = "idle"
    /\ \E m \in TypedMethods : \E e \in Endpoints : \E tr \in session_request(e, verify) :
         /\ entry' = m
         /\ endpoint' = e
         /\ lastTr' = tr
         /\ outcomes' = <<_request(tr)>>
         /\ ret' = _request(tr)
    /\ cpc' = "returned"
    /\ retried' = FALSE
    /\ UNCHANGED <<verify_ssl, cert_file, verify, max_retries, attempt, sleeps, srvVars>>

\* _request_with_retry is entered: range(max_retries) is empty, and the return
\* after the loop reads the unassigned local result, or the loop starts
_request_with_retry ==
    /\ cpc = "idle"
    /\ entry' = "_request_with_retry"
    /\ cpc' = IF max_retries <= 0 THEN "raised" ELSE "loop"
    /\ attempt' = 0
    /\ UNCHANGED <<verify_ssl, cert_file, verify, max_retries, sleeps, outcomes, endpoint,
                   lastTr, retried, ret, srvVars>>

\* one iteration of the for loop; when range(max_retries) is used up after a
\* continue, the return after the loop hands out the last result
iteration ==
    /\ cpc = "loop"
    /\ \E e \in Endpoints : \E tr \in session_request(e, verify) :
         /\ endpoint' = e
         /\ lastTr' = tr
         /\ outcomes' = Append(outcomes, _request(tr))
         /\ IF SleepsAndContinues(_request(tr), attempt, max_retries)
            THEN /\ sleeps' = sleeps + 1
                 /\ attempt' = attempt + 1
                 /\ retried' = TRUE
                 /\ IF attempt + 1 < max_retries
                    THEN UNCHANGED <<cpc, ret>>
                    ELSE ret' = _request(tr) /\ cpc' = "returned"
            ELSE /\ ret' = _request(tr)
                 /\ cpc' = "returned"
                 /\ retried' = FALSE
                 /\ UNCHANGED <<sleeps, attempt>>
    /\ UNCHANGED <<verify_ssl, cert_file, verify, max_retries, entry, srvVars>>

\* the caller has the result (or the exception): the client is ready for a new call
next_call ==
    /\ cpc \in {"returned", "raised"}
    /\ cpc' = "idle"
    /\ entry' = ""
    /\ attempt' = 0
    /\ sleeps' = 0
    /\ outcomes' = <<>>
    /\ endpoint' = ""
    /\ lastTr' = NoTransport
    /\ retried' = FALSE
    /\ ret' = <<>>
    /\ UNCHANGED <<verify_ssl, cert_file, verify, max_retries, srvVars>>

vars == <<srvVars, clVars>>

Init ==
    /\ pc = "idle"
    /\ db = Database
    /\ db0 = Database
    /\ now = 0
    /\ req = NoRequest
    /\ resp = <<>>
    /\ userLog = <<>>
    /\ postLog = <<>>
    /\ created = <<>>
    /\ lastGet = NoGet
    /\ verify_ssl = FALSE
    /\ cert_file = Null
    /\ verify = HTTPClient_init(FALSE, Null)
    /\ max_retries = 3
    /\ cpc = "idle"
    /\ entry = ""
    /\ attempt = 0
    /\ sleeps = 0
    /\ outcomes = <<>>
    /\ endpoint = ""
    /\ lastTr = NoTransport
    /\ retried = FALSE
    /\ ret = <<>>

\* the server: every request gets a new handler, and with it a new Database
Next ==
    \/ Tick
    \/ GET(HTTPRequestHandler_init)
    \/ POST(HTTPRequestHandler_init)
    \/ PUT(HTTPRequestHandler_init)
    \/ DELETE(HTTPRequestHandler_init)
    \/ finish

Spec == Init /\ [][Next]_vars

\* one handler's methods, one after the other on its Database (at one clock
\* reading: the time only stamps created_at and the error envelopes)
NextHandler ==
    \/ GET(db)
    \/ POST(db)
    \/ PUT(db)
    \/ DELETE(db)
    \/ finish

SpecHandler == Init /\ [][NextHandler]_vars

\* the client against an arbitrary transport
NextClient ==
    \/ SecureHTTPClient_init
    \/ typed_method
    \/ _request_with_retry
    \/ iteration
    \/ next_call

SpecClient == Init /\ [][NextClient]_vars

----------------------------------------------------------------------------
(* The claims *)

Parts == _parse_path(req.path)
Answered == pc = "sent"
Code == Status(resp)
\* the request names a user by a well-formed id: /users/{id}...
NamesUser == Len(Parts) >= 2 /\ Parts[1] = "users" /\ IsInt(Parts[2])
UserId == int(Parts[2])

RECURSIVE CountBy(_, _)
\* how many of the logged posts have the author a
CountBy(log, a) ==
    IF log = <<>> THEN 0
    ELSE (IF Head(log)[2]["author_id"] = a THEN 1 ELSE 0) + CountBy(Tail(log), a)

Ids(log) == [i \in 1..Len(log) |-> log[i][2]["id"][2]]
StrictlyIncreasingFrom1(ids) ==
    /\ ids # <<>> => ids[1] = 1
    /\ \A i, j \in 1..Len(ids) : i < j => ids[i] < ids[j]

\* C1: after a POST /users answered 201 with id i, a GET /users/i with no update
\* or delete of i in between is answered 200 with the user as it was created.
C1_RoundTrip ==
    (Answered /\ req.method = "GET" /\ Len(Parts) = 2 /\ NamesUser
              /\ UserId \in DOMAIN created)
    => (Len(resp) = 1 /\ Code = 200 /\ resp[1].body.data = created[UserId])

\* C2: the ids answered by successful POST /users are strictly increasing, start
\* at 1 and are never reused; the same for the ids answered by POST /posts.
C2_IdsStrictlyIncrease ==
    /\ StrictlyIncreasingFrom1(Ids(userLog))
    /\ StrictlyIncreasingFrom1(Ids(postLog))

\* C3: once user i has been created, POST /posts with title, content and
\* author_id = i is answered 201 with data.author_id = i, and GET /users/i/posts
\* is answered 200 with count = the number of posts created so far for author i.
C3_PostForCreatedUser ==
    /\ (Answered /\ req.method = "POST" /\ Parts = <<"posts">>
          /\ req.body \in PostObjects
          /\ ~Falsy(Get(req.body[2], "title")) /\ ~Falsy(Get(req.body[2], "content"))
          /\ Get(req.body[2], "author_id")[1] = "int"
          /\ Get(req.body[2], "author_id")[2] \in DOMAIN created)
       => (Code = 201 /\ resp[1].body.data[2]["author_id"] = req.body[2]["author_id"])
    /\ (Answered /\ req.method = "GET" /\ Len(Parts) = 3 /\ NamesUser
          /\ Parts[3] = "posts" /\ UserId \in DOMAIN created)
       => (Code = 200 /\ resp[1].body.count = CountBy(postLog, I(UserId)))

\* C4: PUT /users/{id} on an existing user with an object payload: every supplied
\* field but id and created_at takes the supplied value, every other field keeps
\* its value, and id and created_at are unchanged even when the payload has them.
C4_PutMergesKeepingIdentity ==
    (Answered /\ req.method = "PUT" /\ Len(Parts) = 2 /\ NamesUser
              /\ UserId \in DOMAIN db0.users /\ req.body[1] = "obj")
    => /\ UserId \in DOMAIN db.users
       /\ LET old == db0.users[UserId]
              new == db.users[UserId]
              p   == req.body[2]
          IN /\ \A f \in DOMAIN p \ {"id", "created_at"} : f \in DOMAIN new /\ new[f] = p[f]
             /\ \A f \in DOMAIN old \ DOMAIN p : f \in DOMAIN new /\ new[f] = old[f]
             /\ new["id"] = old["id"]
             /\ new["created_at"] = old["created_at"]

\* the Retry Policy's trigger as the specification states it: status >= 500, or
\* a connection error, or a timeout
PolicyRetryable(tr) ==
    \/ (tr.kind = "resp" /\ tr.status >= 500)
    \/ Kind(tr) \in {"connection_error", "timeout_error"}

\* C5: a typed method of the retry-enabled client returns a retryable outcome
\* only after max_retries exchanges.
C5_TypedMethodsRetry ==
    (cpc = "returned" /\ entry \in TypedMethods /\ max_retries >= 1
        /\ PolicyRetryable(lastTr))
    => Len(outcomes) = max_retries

\* C6: an outcome is re-issued only if its status is >= 500 or its kind is
\* connection_error or timeout_error, whatever text it carries.
C6_RetriedOnlyWhenRetryable ==
    retried => PolicyRetryable(lastTr)

C8_NeverRaises == cpc # "raised"

\* the route table of the specification (section 4.1)
RecognizedRoute(method, parts) ==
    \/ method = "GET" /\ parts = <<>>
    \/ method = "GET" /\ Len(parts) \in {1, 2} /\ parts[1] \in {"users", "posts"}
    \/ method = "GET" /\ Len(parts) = 3 /\ parts[1] = "users" /\ parts[3] = "posts"
    \/ method = "POST" /\ Len(parts) = 1 /\ parts[1] \in {"users", "posts"}
    \/ method \in {"PUT", "DELETE"} /\ Len(parts) = 2 /\ parts[1] = "users"

\* C9: a request that matches no route is answered 404 "Endpoint not found" and
\* leaves the Store as it was.
C9_UnknownRoute404 ==
    (Answered /\ ~RecognizedRoute(req.method, Parts))
    => /\ Len(resp) = 1 /\ Code = 404
       /\ resp[1].body.error = "Endpoint not found"
       /\ db = db0

\* a route with an {id} segment
IdRoute(method, parts) ==
    \/ method = "GET" /\ Len(parts) = 2 /\ parts[1] \in {"users", "posts"}
    \/ method = "GET" /\ Len(parts) = 3 /\ parts[1] = "users" /\ parts[3] = "posts"
    \/ method \in {"PUT", "DELETE"} /\ Len(parts) = 2 /\ parts[1] = "users"

\* C10: on a route with an {id}, an id that is no integer is answered 400 (never
\* 404) with the Store unchanged, and "Invalid user ID" / "Invalid post ID" is
\* answered only to a request whose id is no integer, whatever its body.
C10_MalformedIdOnly ==
    Answered =>
    /\ (IdRoute(req.method, Parts) /\ ~IsInt(Parts[2]))
       => (Len(resp) = 1 /\ Code = 400 /\ db = db0)
    /\ (Len(resp) = 1 /\ Code >= 400
          /\ resp[1].body.error \in {"Invalid user ID", "Invalid post ID"})
       => (IdRoute(req.method, Parts) /\ ~IsInt(Parts[2]))

\* the request is a POST /posts whose body is an object with a non-empty title
\* and a non-empty content
PostWithTitleAndContent ==
    /\ Answered /\ req.method = "POST" /\ Parts = <<"posts">>
    /\ req.body[1] = "obj"
    /\ ~Falsy(Get(req.body[2], "title")) /\ ~Falsy(Get(req.body[2], "content"))

\* C11: POST /posts with title, content and an author_id that is present and
\* not null (0 included) but is the id of no user in the Store is answered 404
\* "Author not found", and the posts and the post id counter stay as they were.
C11_MissingAuthorIs404 ==
    (PostWithTitleAndContent
       /\ "author_id" \in DOMAIN req.body[2]
       /\ req.body[2]["author_id"] # Null
       /\ ~(req.body[2]["author_id"][1] = "int"
            /\ req.body[2]["author_id"][2] \in DOMAIN db0.users))
    => /\ Len(resp) = 1 /\ Code = 404
       /\ resp[1].body.error = "Author not found"
       /\ db.posts = db0.posts /\ db.next_post_id = db0.next_post_id

\* a field of the request's object body is missing / is missing or empty
Missing(k) == k \notin DOMAIN req.body[2]
MissingOrEmpty(k) == Missing(k) \/ req.body[2][k] = S("")

\* the request fails validation: no body or a malformed one on POST or PUT, a
\* POST /users without a name or an email, a POST /posts without one of its fields
FailsValidation ==
    \/ req.method \in {"POST", "PUT"} /\ req.body \in {NoBody, Malformed}
    \/ /\ req.method = "POST" /\ Parts = <<"users">> /\ req.body[1] = "obj"
       /\ (MissingOrEmpty("name") \/ MissingOrEmpty("email"))
    \/ /\ req.method = "POST" /\ Parts = <<"posts">> /\ req.body[1] = "obj"
       /\ (Missing("title") \/ Missing("content") \/ Missing("author_id"))

\* C12: a request that fails validation is answered 400 with success = false,
\* and users, posts and both id counters are what they were before it.
C12_ValidationPrecedesStore ==
    (Answered /\ FailsValidation)
    => /\ Len(resp) = 1 /\ Code = 400
       /\ resp[1].body.success = FALSE
       /\ db = db0

\* C13: a GET sent once more, with no other request in between, gets the same
\* responses as the first time, field for field.
C13_GetIdempotent ==
    (Answered /\ req.method = "GET" /\ lastGet.seen /\ lastGet.path = req.path)
    => resp = lastGet.out

\* the request is a DELETE /users/{id} with an integer id the Store does not hold
DeletesAbsentUser ==
    /\ Answered /\ req.method = "DELETE" /\ Len(Parts) = 2 /\ NamesUser
    /\ UserId \notin DOMAIN db0.users

\* C14: DELETE /users/{id} for an integer id that is not in the Store is
\* answered 404 "User not found" with success = false, and users, posts and
\* both id counters are what they were.
C14_DeleteAbsentIs404 ==
    DeletesAbsentUser
    => /\ Len(resp) = 1 /\ Code = 404
       /\ resp[1].body.success = FALSE
       /\ resp[1].body.error = "User not found"
       /\ db = db0

\* user 2 is deleted from a Store that holds user 1 and no user 2
C14_Witness ==
    /\ DeletesAbsentUser /\ UserId = 2
    /\ 1 \in DOMAIN db0.users
    /\ Code = 404 /\ db = db0

\* the request is a PUT /users/{id} with the payload {} for a user the Store holds
PutsEmptyObject ==
    /\ Answered /\ req.method = "PUT" /\ Len(Parts) = 2 /\ NamesUser
    /\ UserId \in DOMAIN db0.users
    /\ req.body = Obj(<<>>)

\* C15: PUT /users/{id} with the payload {} on an existing user is answered 200
\* with that user, and the user and the rest of the Store are what they were.
C15_EmptyUpdateKeepsAll ==
    PutsEmptyObject
    => /\ Len(resp) = 1 /\ Code = 200
       /\ resp[1].body.success = TRUE
       /\ resp[1].body.data = Obj(db0.users[UserId])
       /\ db = db0

\* {} is put to user 1 of a Store that also holds a post
C15_Witness ==
    /\ PutsEmptyObject /\ UserId = 1
    /\ db0.posts # <<>>
    /\ Code = 200 /\ db = db0

\* no two of the logged creates were answered with the same id
DistinctIds(log) ==
    \A i, j \in 1..Len(log) : i # j => log[i][2]["id"] # log[j][2]["id"]

\* C16: creates of the same entity type that reach the server from different
\* connections never get the same id: the ids answered to POST /users are
\* pairwise different, and so are the ids answered to POST /posts.
C16_ConcurrentCreatesDistinctIds ==
    /\ DistinctIds(userLog)
    /\ DistinctIds(postLog)

\* the outcome is the one _request builds for an SSLError
IsTlsError(result) == Contains(ErrorOf(result), "SSL Error: ")

\* the client was built with no certificate path, or with one that does not exist
NoUsableCert == cert_file \in {Null, S("")} \/ ~Exists(cert_file)

\* a call has returned whose exchange was with the self-signed server
AnsweredBySelfSigned == cpc = "returned" /\ endpoint = "self_signed"

\* C17: with verify_ssl false the session validates no certificate, whatever
\* cert_file is, and a request to the self-signed server is answered without a
\* tls_error; with verify_ssl true and an existing cert_file that file is the
\* trust anchor; with verify_ssl true and no usable cert_file the session keeps
\* the system defaults and a request to the self-signed server ends in tls_error.
C17_TlsTrust ==
    /\ ~verify_ssl => verify = B(FALSE)
    /\ (verify_ssl /\ ~NoUsableCert) => verify = cert_file
    /\ (verify_ssl /\ NoUsableCert) => verify = B(TRUE)
    /\ (AnsweredBySelfSigned /\ ~verify_ssl)
       => (~IsTlsError(ret) /\ StatusOf(ret) = 200)
    /\ (AnsweredBySelfSigned /\ verify_ssl /\ NoUsableCert)
       => IsTlsError(ret)

\* a client built with verify_ssl = True and a certificate path that does not
\* exist gets a tls_error from the self-signed server
C17_Witness ==
    /\ AnsweredBySelfSigned /\ entry \in TypedMethods
    /\ verify_ssl /\ cert_file = S("missing.crt")
    /\ IsTlsError(ret)

\* C18: a request that is answered with an error status (>= 400) leaves users,
\* posts and both id counters as they were before it, whatever well-formed JSON
\* its body is: nothing of a refused operation is applied.
C18_NoPartialApplication ==
    (Answered /\ Len(resp) >= 1 /\ Code >= 400 /\ req.body # Malformed)
    => db = db0

\* a field of a stored user is a non-empty string
NonEmptyString(v) == v[1] = "str" /\ v # S("")

\* C19: every user in the Store has a non-empty name and a non-empty email,
\* after any sequence of POST /users and PUT /users/{id} requests.
C19_NamesNonEmpty ==
    \A i \in DOMAIN db.users :
        /\ NonEmptyString(Get(db.users[i], "name"))
        /\ NonEmptyString(Get(db.users[i], "email"))

\* the request makes the handler's code raise: the target or the Content-Length
\* does not parse, a POST to /users or /posts has a body that is no object, or
\* the update of an existing user raises
HandlerFaults ==
    \/ urlparse_raises(req.path)
    \/ req.method \in {"POST", "PUT"} /\ _read_json_body_raises(req.body)
    \/ /\ req.method = "POST" /\ Parts \in {<<"users">>, <<"posts">>}
       /\ req.body \notin {NoBody, Malformed, Null} /\ req.body[1] # "obj"
    \/ /\ req.method = "PUT" /\ Len(Parts) = 2 /\ NamesUser
       /\ req.body \notin {NoBody, Malformed, Null}
       /\ update_user(db0, UserId, req.body).exc # ""

\* C20: a request whose handling raises an unexpected fault, in the parsing of
\* the path or the reading of the body as well, is answered with one 500
\* envelope with success = false.
C20_FaultsAnswered500 ==
    (Answered /\ HandlerFaults)
    => /\ Len(resp) = 1 /\ Code = 500
       /\ resp[1].body.success = FALSE

\* a typed method has returned what _request made of an HTTP response
ReturnedForResponse ==
    cpc = "returned" /\ entry \in TypedMethods /\ lastTr.kind = "resp"

\* C21: for every HTTP response, whatever its status code and its body (a JSON
\* object, another JSON value, or text that is no JSON), the object _request
\* returns carries the status code and a success flag equal to status < 400.
C21_StatusAndSuccessAttached ==
    ReturnedForResponse
    => /\ "_status_code" \in DOMAIN ret /\ ret["_status_code"] = lastTr.status
       /\ "_success" \in DOMAIN ret /\ ret["_success"] = (lastTr.status < 400)

\* a typed method has returned what _request made of an exception of the transport
ReturnedForFailure ==
    cpc = "returned" /\ entry \in TypedMethods /\ lastTr.kind = "exc"

\* the outcome names the class, and carries a suggestion or none
Reported(result, prefix, suggests) ==
    /\ ErrorOf(result) # <<>> /\ ErrorOf(result)[1] = prefix
    /\ result["success"] = FALSE
    /\ ("suggestion" \in DOMAIN result) = suggests

\* C22: a transport failure is reported as the first class it matches, in the
\* order TLS failure, connection failure, timeout, other; every such outcome
\* has success = false; the first three carry a suggestion, the last one none.
C22_ClassifiedInOrder ==
    ReturnedForFailure
    => /\ lastTr.ssl => Reported(ret, "SSL Error: ", TRUE)
       /\ (~lastTr.ssl /\ lastTr.conn) => Reported(ret, "Connection Error", TRUE)
       /\ (~lastTr.ssl /\ ~lastTr.conn /\ lastTr.timeout) => Reported(ret, "Timeout", TRUE)
       /\ (~lastTr.ssl /\ ~lastTr.conn /\ ~lastTr.timeout)
          => Reported(ret, "Request Error: ", FALSE)

\* a connect timeout, both a connection error and a timeout, is reported as a
\* connection error
C22_Witness ==
    /\ ReturnedForFailure
    /\ ~lastTr.ssl /\ lastTr.conn /\ lastTr.timeout
    /\ Reported(ret, "Connection Error", TRUE)

\* the request was answered with a success status
Succeeded == Len(resp) = 1 /\ Code >= 200 /\ Code < 300

\* C23: a GET leaves users, posts and both id counters as they were, for every
\* path; the Store is changed only by a POST, a PUT or a DELETE that succeeded.
C23_OnlySuccessfulWritesChange ==
    Answered =>
    /\ req.method = "GET" => db = db0
    /\ db # db0 => (req.method \in {"POST", "PUT", "DELETE"} /\ Succeeded)

\* the request is a GET /users/{id}/posts with an integer id
GetsPostsOfUser ==
    /\ Answered /\ req.method = "GET" /\ Len(Parts) = 3 /\ NamesUser
    /\ Parts[3] = "posts"

\* C24: a DELETE removes at most the user it names and leaves the posts and
\* the post id counter alone; no request removes or changes a stored post; and
\* every post ever created, those of deleted users too, is returned by
\* GET /posts and, for its author's id, by GET /users/{id}/posts.
C24_DeleteLeavesPosts ==
    Answered =>
    /\ req.method = "DELETE"
       => /\ db.posts = db0.posts /\ db.next_post_id = db0.next_post_id
          /\ db.users = IF Len(Parts) = 2 /\ NamesUser
                        THEN Del(db0.users, UserId) ELSE db0.users
    /\ \A k \in DOMAIN db0.posts : k \in DOMAIN db.posts /\ db.posts[k] = db0.posts[k]
    /\ (req.method = "GET" /\ Parts = <<"posts">>)
       => (Code = 200 /\ resp[1].body.data = Arr(postLog))
    /\ GetsPostsOfUser
       => (Code = 200 /\ resp[1].body.data = Arr(Filter(postLog, I(UserId))))

\* the posts of user 1 are asked for after user 1 was deleted, and are returned
C24_Witness ==
    /\ GetsPostsOfUser /\ UserId = 1
    /\ 1 \notin DOMAIN db0.users
    /\ Code = 200 /\ resp[1].body.count >= 1

\* the request is a GET of a list: /users, /posts or /users/{id}/posts
GetsList ==
    /\ Answered /\ req.method = "GET"
    /\ \/ Parts = <<"users">>
       \/ Parts = <<"posts">>
       \/ Len(Parts) = 3 /\ NamesUser /\ Parts[3] = "posts"

\* count goes with the list responses and with no other, and is the length of
\* data; the posts listed for a user all have that user's id as author_id
CountGoesWithLists ==
    /\ (Answered /\ Len(resp) = 1)
       => /\ ("count" \in DOMAIN resp[1].body) <=> GetsList
          /\ GetsList => /\ Code = 200
                         /\ resp[1].body.data[1] = "arr"
                         /\ resp[1].body.count = Len(resp[1].body.data[2])
    /\ GetsPostsOfUser
       => /\ Len(resp) = 1 /\ Code = 200
          /\ \A i \in 1..Len(resp[1].body.data[2]) :
                resp[1].body.data[2][i][2]["author_id"] = I(UserId)

\* C25: count is in the envelope exactly for the list responses and
\* equals the number of elements of data; GET /users/{id}/posts lists only
\* posts with author_id = id; and when no user has that id it is answered 200
\* with count 0.
C25_CountZeroWithoutUser ==
    /\ CountGoesWithLists
    /\ (GetsPostsOfUser /\ UserId \notin DOMAIN db0.users)
       => resp[1].body.count = 0

\* C26: every do_GET, do_POST, do_PUT and do_DELETE that has run has sent
\* exactly one response, neither none nor more than one, whatever the path, the
\* number of its segments and the body.
C26_ExactlyOneResponse ==
    (Answered /\ req.method \in {"GET", "POST", "PUT", "DELETE"}) => Len(resp) = 1

\* the keys the creates recorded in a log have put into the Store
EverKeys(log) == { log[i][2]["id"][2] : i \in 1..Len(log) }

\* C27: on one Database, each next id is greater than every key that is or
\* ever was in its collection; each counter has grown by exactly 1 for every
\* successful create and by nothing else, the key of a new entity being the
\* counter's value before the create; and a create_post refused because the
\* author is unknown leaves posts and next_post_id as they were.
C27_CountersAboveKeys ==
    /\ \A k \in DOMAIN db.users \cup EverKeys(userLog) : k < db.next_user_id
    /\ \A k \in DOMAIN db.posts \cup EverKeys(postLog) : k < db.next_post_id
    /\ db.next_user_id = 1 + Len(userLog)
    /\ db.next_post_id = 1 + Len(postLog)
    /\ Answered =>
       /\ IF req.method = "POST" /\ Parts = <<"users">> /\ Len(resp) = 1 /\ Code = 201
          THEN /\ db.next_user_id = db0.next_user_id + 1
               /\ DOMAIN db.users = DOMAIN db0.users \cup {db0.next_user_id}
          ELSE /\ db.next_user_id = db0.next_user_id
               /\ DOMAIN db.users \subseteq DOMAIN db0.users
       /\ IF req.method = "POST" /\ Parts = <<"posts">> /\ Len(resp) = 1 /\ Code = 201
          THEN /\ db.next_post_id = db0.next_post_id + 1
               /\ DOMAIN db.posts = DOMAIN db0.posts \cup {db0.next_post_id}
          ELSE /\ db.next_post_id = db0.next_post_id
               /\ db.posts = db0.posts
       /\ (req.method = "POST" /\ Parts = <<"posts">> /\ Len(resp) = 1 /\ Code = 404)
          => /\ resp[1].body.error = "Author not found"
             /\ db.posts = db0.posts /\ db.next_post_id = db0.next_post_id

\* a post for user 1 is refused after user 1 posted and was deleted: the Store
\* keeps its one post and both counters stay at 2
C27_Witness ==
    /\ Answered /\ req.method = "POST" /\ Parts = <<"posts">>
    /\ Len(resp) = 1 /\ Code = 404
    /\ req.body[1] = "obj" /\ Get(req.body[2], "author_id") = I(1)
    /\ db0.users = <<>> /\ DOMAIN db0.posts = {1}
    /\ db.next_user_id = 2 /\ db.next_post_id = 2

====
